---- MODULE Spec2Model ----
(***************************************************************************)
(* Release gate checker (ci/release_gates/check_gates.py).                 *)
(*                                                                         *)
(* One run of main() is modelled as a sequential process whose position is *)
(* pc: parse the arguments, load the four artifacts, evaluate the four     *)
(* gates in the order of the dict literal, build the result, write it,     *)
(* print the summary, return.  An exception that no handler catches ends   *)
(* the run at pc = "crashed".                                              *)
(*                                                                         *)
(* JSON values are tagged records:                                         *)
(*   [t |-> "none"]             Python None / JSON null                    *)
(*   [t |-> "int",  v |-> n]    a number (see below for the unit)          *)
(*   [t |-> "str"]              a JSON string                              *)
(*   [t |-> "list", items |-> s] a JSON array                              *)
(*   [t |-> "dict", f |-> fn]   a JSON object, fn maps its keys to values  *)
(* Latencies and recovery times are whole milliseconds.  Ratios            *)
(* (accuracy, the thresholds 0.8 and 0.9) are counted in thousandths, so   *)
(* accuracy 0.899 is Num(899) and the literal 0.9 is 900.  Non-finite      *)
(* floats (NaN, Infinity) are outside the modelled number domain.          *)
(***************************************************************************)
EXTENDS Integers, Sequences, FiniteSets, TLC

VARIABLES
  pc,          \* position of the run inside main()
  files,       \* per gate: the path argument and the file it names
  sinkOk,      \* whether the output destination can be written
  now,         \* wall-clock time of the run, in ticks
  data,        \* integration_data, perf_data, chaos_data, model_data
  stderr,      \* gates whose load printed a warning, in order
  gates,       \* the gates dict, in insertion order
  all_passed,  \* local all_passed
  result,      \* local result
  output,      \* content of the output file
  stdout,      \* printed summary lines
  exitCode,    \* exit status of the process, -1 while it runs
  error        \* the uncaught exception, if any

vars == <<pc, files, sinkOk, now, data, stderr, gates, all_passed, result,
          output, stdout, exitCode, error>>

----------------------------------------------------------------------------
(* Bounds of the model *)

MaxEvents == 2
MaxClock == 1

----------------------------------------------------------------------------
(* Python / JSON values *)

None == [t |-> "none"]
Num(n) == [t |-> "int", v |-> n]
Str == [t |-> "str"]
List(s) == [t |-> "list", items |-> s]
Dict(fn) == [t |-> "dict", f |-> fn]
EmptyDict == Dict([k \in {} |-> None])

\* dict.get(key, default)
Get(d, key, default) == IF key \in DOMAIN d.f THEN d.f[key] ELSE default

\* outcome of a call: a returned (passed, message) tuple or a raised exception
Ret(p, m) == [kind |-> "return", passed |-> p, message |-> m]
Raise(e) == [kind |-> "raise", exc |-> e]

\* an f-string: its literal template and the values interpolated into it
Msg(text, args) == [text |-> text, args |-> args]

Gates == {"integration", "performance", "chaos", "models"}
GateOrder == <<"integration", "performance", "chaos", "models">>

----------------------------------------------------------------------------
(* Thresholds *)

PassRateThreshold == 800
LatencyThresholdMs == 1000
RecoveryThresholdMs == 5000
AccuracyThreshold == 900

\* mutant: the boundary rate 0.8 itself counts as too low
PassRateTooLow_Inclusive(num, den) == num * 1000 <= PassRateThreshold * den

\* pass_rate < 0.8, pass_rate = num/den with den > 0
PassRateTooLow(num, den) == num * 1000 < PassRateThreshold * den

\* mutant: a p95 of exactly 1000 counts as too high
LatencyTooHigh_Inclusive(latency_p95) == latency_p95 >= LatencyThresholdMs

\* latency_p95 > 1000
LatencyTooHigh(latency_p95) == latency_p95 > LatencyThresholdMs

\* mutant: a mean of exactly 5000 counts as too high
RecoveryTooHigh_Inclusive(total, n) == total >= RecoveryThresholdMs * n

\* avg_recovery > 5000, avg_recovery = total/n with n > 0
RecoveryTooHigh(total, n) == total > RecoveryThresholdMs * n

\* mutant: an accuracy of exactly 0.9 counts as too low
AccuracyTooLow_Inclusive(accuracy) == accuracy <= AccuracyThreshold

\* accuracy < 0.9
AccuracyTooLow(accuracy) == accuracy < AccuracyThreshold

----------------------------------------------------------------------------
(* load_json_file *)

\* state of the file a path argument names
NoArg == [k |-> "no_arg"]
Absent == [k |-> "absent"]
InvalidJson == [k |-> "invalid_json"]
IoError == [k |-> "io_error"]
BadEncoding == [k |-> "bad_encoding"]
Ok(c) == [k |-> "ok", content |-> c]

Loaded(v, w) == [kind |-> "return", value |-> v, warn |-> w]

load_json_file(file) ==
  CASE file.k = "absent" -> Loaded(None, FALSE)
    [] file.k = "ok" -> Loaded(file.content, FALSE)
    [] file.k = "invalid_json" -> Loaded(None, TRUE)
    [] file.k = "io_error" -> Loaded(None, TRUE)
    [] file.k = "bad_encoding" -> Raise("UnicodeDecodeError")

\* main, lines 107-110: load_json_file(args.x) if args.x else None
LoadArg(file) ==
  IF file.k = "no_arg" THEN Loaded(None, FALSE) ELSE load_json_file(file)

----------------------------------------------------------------------------
(* Gate evaluators *)

check_integration_gate(integration_data) ==
  IF integration_data = None
  THEN Ret(FALSE, Msg("Integration test results not found", <<>>))
  ELSE IF integration_data.t # "dict" THEN Raise("AttributeError")
  ELSE LET summary == Get(integration_data, "summary", EmptyDict) IN
    IF summary.t # "dict" THEN Raise("AttributeError")
    ELSE LET total == Get(summary, "total", Num(0))
             passed == Get(summary, "passed", Num(0))
             failed == Get(summary, "failed", Num(0))
         IN
      IF total = Num(0)
      THEN Ret(FALSE, Msg("No integration tests run", <<>>))
      ELSE IF total.t # "int" THEN Raise("TypeError")
      ELSE IF total.v > 0 /\ passed.t # "int" THEN Raise("TypeError")
      ELSE LET \* pass_rate as the fraction num/den, den > 0
               num == IF total.v > 0 THEN passed.v ELSE 0
               den == IF total.v > 0 THEN total.v ELSE 1
           IN
        IF PassRateTooLow(num, den)
        THEN Ret(FALSE, Msg("Integration pass rate too low: {pass_rate:.1%} (required: 80%)",
                            <<num, den>>))
        ELSE Ret(TRUE, Msg("Integration tests passed: {passed}/{total} ({pass_rate:.1%})",
                           <<passed.v, total.v, num, den>>))

check_performance_gate(perf_data) ==
  IF perf_data = None
  THEN Ret(TRUE, Msg("Performance data not available (optional)", <<>>))
  ELSE IF perf_data.t # "dict" THEN Raise("AttributeError")
  ELSE LET latency == Get(perf_data, "latency", EmptyDict) IN
    IF latency.t # "dict" THEN Raise("AttributeError")
    ELSE LET latency_p50 == Get(latency, "p50", Num(0))
             latency_p95 == Get(latency, "p95", Num(0))
         IN
      IF latency_p95.t # "int" THEN Raise("TypeError")
      ELSE IF LatencyTooHigh(latency_p95.v)
      THEN Ret(FALSE, Msg("P95 latency too high: {latency_p95}ms (threshold: 1000ms)",
                          <<latency_p95.v>>))
      ELSE Ret(TRUE, Msg("Performance metrics acceptable (P95: {latency_p95}ms)",
                         <<latency_p95.v>>))

\* e.get('recovery_time_ms', 0) of one healing event
RecoveryOf(e) == Get(e, "recovery_time_ms", Num(0))

RECURSIVE SumRecovery(_)
SumRecovery(events) ==
  IF events = <<>> THEN 0
  ELSE RecoveryOf(Head(events)).v + SumRecovery(Tail(events))

check_chaos_gate(chaos_data) ==
  IF chaos_data = None
  THEN Ret(TRUE, Msg("Chaos test data not available (optional)", <<>>))
  ELSE IF chaos_data.t # "dict" THEN Raise("AttributeError")
  ELSE LET healing_events == Get(chaos_data, "healing_events", List(<<>>)) IN
    IF healing_events.t # "list" THEN Raise("TypeError")
    ELSE LET events == healing_events.items
             n == Len(events)
         IN
      IF n = 0
      THEN Ret(TRUE, Msg("No healing events (system stable)", <<>>))
      ELSE IF \E i \in 1..n :
                /\ \A j \in 1..(i-1) : /\ events[j].t = "dict"
                                       /\ RecoveryOf(events[j]).t = "int"
                /\ events[i].t # "dict"
      THEN Raise("AttributeError")
      ELSE IF \E i \in 1..n : RecoveryOf(events[i]).t # "int"
      THEN Raise("TypeError")
      ELSE LET total == SumRecovery(events) IN
        IF RecoveryTooHigh(total, n)
        THEN Ret(FALSE, Msg("Average recovery time too high: {avg_recovery:.0f}ms (threshold: 5000ms)",
                            <<total, n>>))
        ELSE Ret(TRUE, Msg("Chaos tests passed: {len(healing_events)} healing events, avg recovery: {avg_recovery:.0f}ms",
                           <<n, total, n>>))

check_model_gate(model_data) ==
  IF model_data = None
  THEN Ret(TRUE, Msg("Model validation data not available (optional)", <<>>))
  ELSE IF model_data.t # "dict" THEN Raise("AttributeError")
  ELSE LET accuracy == Get(model_data, "accuracy", Num(0)) IN
    IF accuracy.t # "int" THEN Raise("TypeError")
    ELSE IF AccuracyTooLow(accuracy.v)
    THEN Ret(FALSE, Msg("Model accuracy too low: {accuracy:.1%} (required: 90%)",
                        <<accuracy.v>>))
    ELSE Ret(TRUE, Msg("Model validation passed: accuracy {accuracy:.1%}",
                       <<accuracy.v>>))

----------------------------------------------------------------------------
(* main: aggregation and result *)

\* mutant: only the first gate decides the overall verdict
AllPassed_FirstOnly(gs) == gs[1].passed

\* all(passed for passed, _ in gates.values())
AllPassed(gs) == \A i \in 1..Len(gs) : gs[i].passed

\* mutant: gates that passed are left out of the report
GateEntries_FailuresOnly(gs) ==
  SelectSeq([i \in 1..Len(gs) |->
               [name |-> gs[i].name, passed |-> gs[i].passed,
                message |-> gs[i].message]],
            LAMBDA e : ~e.passed)

\* {name: {'passed': passed, 'message': message} for name, ... in gates.items()}
GateEntries(gs) ==
  [i \in 1..Len(gs) |->
     [name |-> gs[i].name, passed |-> gs[i].passed, message |-> gs[i].message]]

\* json.dumps({})
json_dumps_empty == "{}"

\* mutant: the exit code counts nothing and is always 0
ExitStatus_AlwaysZero(ap) == 0

\* return 0 if all_passed else 1
ExitStatus(ap) == IF ap THEN 0 ELSE 1

\* the summary printed on stdout
SummaryLines(gs, ap) ==
  <<[line |-> "header"]>>
  \o [i \in 1..Len(gs) |->
        [line |-> "gate",
         status |-> IF gs[i].passed THEN "PASS" ELSE "FAIL",
         name |-> gs[i].name, message |-> gs[i].message]]
  \o <<[line |-> "overall", status |-> IF ap THEN "PASSED" ELSE "FAILED"]>>

\* an exception no handler catches: traceback, interpreter exit status 1
Crash(origin, gate, exc) ==
  /\ pc' = "crashed"
  /\ error' = [origin |-> origin, gate |-> gate, exc |-> exc]
  /\ exitCode' = 1

----------------------------------------------------------------------------
(* Steps of main *)

\* lines 97-104: --output is required, argparse exits with status 2 without it
ParseArgs ==
  /\ pc = "start"
  /\ \E outputGiven \in BOOLEAN :
       IF outputGiven
       THEN /\ pc' = "load_integration"
            /\ UNCHANGED exitCode
       ELSE /\ pc' = "usage_error"
            /\ exitCode' = 2
  /\ UNCHANGED <<files, sinkOk, now, data, stderr, gates, all_passed, result,
                 output, stdout, error>>

Load(g, here, next) ==
  /\ pc = here
  /\ LET r == LoadArg(files[g]) IN
       IF r.kind = "raise"
       THEN /\ Crash("load", g, r.exc)
            /\ UNCHANGED <<data, stderr>>
       ELSE /\ data' = [data EXCEPT ![g] = r.value]
            /\ stderr' = IF r.warn THEN Append(stderr, g) ELSE stderr
            /\ pc' = next
            /\ UNCHANGED <<exitCode, error>>
  /\ UNCHANGED <<files, sinkOk, now, gates, all_passed, result, output, stdout>>

LoadIntegration == Load("integration", "load_integration", "load_perf")
LoadPerf == Load("performance", "load_perf", "load_chaos")
LoadChaos == Load("chaos", "load_chaos", "load_models")
LoadModels == Load("models", "load_models", "check_integration")

\* one entry of the gates dict literal, lines 113-118
Check(g, r, here, next) ==
  /\ pc = here
  /\ IF r.kind = "raise"
     THEN /\ Crash("evaluator", g, r.exc)
          /\ UNCHANGED gates
     ELSE /\ gates' = Append(gates, [name |-> g, passed |-> r.passed,
                                     message |-> r.message])
          /\ pc' = next
          /\ UNCHANGED <<exitCode, error>>
  /\ UNCHANGED <<files, sinkOk, now, data, stderr, all_passed, result, output,
                 stdout>>

CheckIntegration ==
  Check("integration", check_integration_gate(data["integration"]),
        "check_integration", "check_performance")
CheckPerformance ==
  Check("performance", check_performance_gate(data["performance"]),
        "check_performance", "check_chaos")
CheckChaos ==
  Check("chaos", check_chaos_gate(data["chaos"]), "check_chaos", "check_models")
CheckModel ==
  Check("models", check_model_gate(data["models"]), "check_models", "build")

\* lines 120-134
BuildResult ==
  /\ pc = "build"
  /\ all_passed' = AllPassed(gates)
  /\ result' = [passed |-> AllPassed(gates),
                gates |-> GateEntries(gates),
                timestamp |-> json_dumps_empty]
  /\ pc' = "write"
  /\ UNCHANGED <<files, sinkOk, now, data, stderr, gates, output, stdout,
                 exitCode, error>>

\* lines 136-140; mkdir or open failing is not caught
WriteResult ==
  /\ pc = "write"
  /\ IF sinkOk
     THEN /\ output' = result
          /\ pc' = "print"
          /\ UNCHANGED <<exitCode, error>>
     ELSE /\ Crash("sink", "output", "OSError")
          /\ UNCHANGED output
  /\ UNCHANGED <<files, sinkOk, now, data, stderr, gates, all_passed, result,
                 stdout>>

\* lines 142-149
PrintSummary ==
  /\ pc = "print"
  /\ stdout' = SummaryLines(gates, all_passed)
  /\ pc' = "return"
  /\ UNCHANGED <<files, sinkOk, now, data, stderr, gates, all_passed, result,
                 output, exitCode, error>>

\* line 151 and sys.exit(main()), line 155
Return ==
  /\ pc = "return"
  /\ exitCode' = ExitStatus(all_passed)
  /\ pc' = "done"
  /\ UNCHANGED <<files, sinkOk, now, data, stderr, gates, all_passed, result,
                 output, stdout, error>>

----------------------------------------------------------------------------
(* Inputs *)

Field(k, v) == [x \in {k} |-> v]

\* a dict with the given keys present; keys mapped to Missing are left out
Missing == [t |-> "missing"]
DictOf(fn) == Dict([k \in {x \in DOMAIN fn : fn[x] # Missing} |-> fn[k]])

Summary(total, passed, failed) ==
  DictOf([k \in {"total", "passed", "failed"} |->
            CASE k = "total" -> total [] k = "passed" -> passed [] k = "failed" -> failed])

TotalValues == {Missing, Str, Num(0 - 1), Num(0), Num(5), Num(100)}
PassedValues == {Missing, Str, Num(3), Num(4), Num(79), Num(80)}
FailedValues == {Missing, Num(1)}

IntegrationInputs ==
  {None, List(<<>>), EmptyDict, DictOf(Field("summary", List(<<>>)))}
  \cup {DictOf(Field("summary", Summary(t, p, f))) :
          t \in TotalValues, p \in PassedValues, f \in FailedValues}

Latency(p50, p95) ==
  DictOf([k \in {"p50", "p95"} |-> IF k = "p50" THEN p50 ELSE p95])

P50Values == {Missing, Str, Num(0), Num(100), Num(1000), Num(2000)}
P95Values == {Missing, Str, Num(0), Num(500), Num(999), Num(1000), Num(1001),
              Num(1002), Num(5000)}

PerformanceInputs ==
  {None, List(<<>>), EmptyDict, DictOf(Field("latency", List(<<>>)))}
  \cup {DictOf(Field("latency", Latency(a, b))) : a \in P50Values, b \in P95Values}

Event(rt) == DictOf(Field("recovery_time_ms", rt))

EventValues ==
  {Num(3)} \cup {Event(rt) : rt \in {Missing, Str, Num(4999), Num(5000),
                                     Num(5001), Num(10000)}}

EventLists == UNION {[1..n -> EventValues] : n \in 0..MaxEvents}

ChaosInputs ==
  {None, List(<<>>), EmptyDict, DictOf(Field("healing_events", Num(5)))}
  \cup {DictOf(Field("healing_events", List(es))) : es \in EventLists}

AccuracyValues == {Missing, Str, Num(0), Num(1000)} \cup {Num(a) : a \in 875..925}

ModelInputs ==
  {None, List(<<>>)} \cup {DictOf(Field("accuracy", a)) : a \in AccuracyValues}

\* the artifacts of a whole run: each kind of file, a few contents per gate
FileStates(contents) ==
  {NoArg, Absent, InvalidJson, IoError, BadEncoding} \cup {Ok(c) : c \in contents}

MainIntegration ==
  {None, List(<<>>),
   DictOf(Field("summary", Summary(Num(5), Num(4), Missing))),
   DictOf(Field("summary", Summary(Num(5), Num(3), Missing))),
   DictOf(Field("summary", Summary(Num(5), Str, Missing)))}
MainPerformance ==
  {List(<<>>), DictOf(Field("latency", Latency(Missing, Num(1000)))),
   DictOf(Field("latency", Latency(Missing, Num(1001))))}
MainChaos ==
  {DictOf(Field("healing_events", Num(5))),
   DictOf(Field("healing_events", List(<<>>))),
   DictOf(Field("healing_events", List(<<Event(Num(5001))>>)))}
MainModels ==
  {List(<<>>), DictOf(Field("accuracy", Num(900))),
   DictOf(Field("accuracy", Num(899)))}

MainContents(g) ==
  CASE g = "integration" -> MainIntegration
    [] g = "performance" -> MainPerformance
    [] g = "chaos" -> MainChaos
    [] g = "models" -> MainModels

----------------------------------------------------------------------------
(* Specifications *)

NoData == [g \in Gates |-> None]

Fresh ==
  /\ stderr = <<>>
  /\ gates = <<>>
  /\ all_passed = FALSE
  /\ result = None
  /\ output = None
  /\ stdout = <<>>
  /\ exitCode = 0 - 1
  /\ error = None

\* a run of main on some artifacts
Init ==
  /\ pc = "start"
  /\ files \in {fs \in [Gates -> UNION {FileStates(MainContents(g)) : g \in Gates}] :
                  \A g \in Gates : fs[g] \in FileStates(MainContents(g))}
  /\ sinkOk \in BOOLEAN
  /\ now \in 0..MaxClock
  /\ data = NoData
  /\ Fresh

Next ==
  \/ ParseArgs
  \/ LoadIntegration
  \/ LoadPerf
  \/ LoadChaos
  \/ LoadModels
  \/ CheckIntegration
  \/ CheckPerformance
  \/ CheckChaos
  \/ CheckModel
  \/ BuildResult
  \/ WriteResult
  \/ PrintSummary
  \/ Return

Spec == Init /\ [][Next]_vars

\* one evaluator applied to one artifact
InitEvaluator(g, here, inputs) ==
  /\ pc = here
  /\ files = [h \in Gates |-> NoArg]
  /\ sinkOk = TRUE
  /\ now = 0
  /\ data \in {[NoData EXCEPT ![g] = x] : x \in inputs}
  /\ Fresh

InitIntegration == InitEvaluator("integration", "check_integration", IntegrationInputs)
SpecIntegration == InitIntegration /\ [][CheckIntegration]_vars

InitPerformance == InitEvaluator("performance", "check_performance", PerformanceInputs)
SpecPerformance == InitPerformance /\ [][CheckPerformance]_vars

InitChaos == InitEvaluator("chaos", "check_chaos", ChaosInputs)
SpecChaos == InitChaos /\ [][CheckChaos]_vars

InitModel == InitEvaluator("models", "check_models", ModelInputs)
SpecModel == InitModel /\ [][CheckModel]_vars

----------------------------------------------------------------------------
(* Properties of a run of main *)

Entry(seq, g) == seq[CHOOSE i \in 1..Len(seq) : seq[i].name = g]
Count(seq, g) == Cardinality({i \in 1..Len(seq) : seq[i].name = g})
Warned(g) == \E i \in 1..Len(stderr) : stderr[i] = g

\* C1: in every report, the overall 'passed' field is the AND of the 'passed'
\* fields of the four gate entries written in that report.
C1_OverallIsAndOfGates ==
  \A r \in {result, output} :
    r # None =>
      /\ Len(r.gates) = 4
      /\ r.passed = (\A g \in Gates : Entry(r.gates, g).passed)

\* C1 witness: a written report that fails overall although the integration
\* gate passed, the only failing gate being the models gate.
C1_Witness ==
  /\ output # None
  /\ ~output.passed
  /\ \A g \in Gates : Entry(output.gates, g).passed = (g # "models")

\* C2: when main completes, the exit code is 0 if the overall verdict is
\* passed and 1 otherwise, and nothing else.
C2_ExitCodeIsVerdict ==
  pc = "done" =>
    /\ exitCode \in {0, 1}
    /\ (exitCode = 0) = output.passed
    /\ (exitCode = 1) = (\E g \in Gates : ~Entry(output.gates, g).passed)

\* C2 witness: a completed run in which two gates failed and the exit code is 1.
C2_Witness ==
  /\ pc = "done"
  /\ exitCode = 1
  /\ Cardinality({g \in Gates : ~Entry(output.gates, g).passed}) >= 2

\* C3 (as claimed): an evaluator raising an internal error does not abort the
\* run; its gate becomes a failing verdict and the run goes on to report.
C3_EvaluatorErrorIsolated ==
  pc = "crashed" => error.origin # "evaluator"

AbsentVerdict(g) ==
  CASE g = "integration" -> [passed |-> FALSE,
                             text |-> "Integration test results not found"]
    [] g = "performance" -> [passed |-> TRUE,
                             text |-> "Performance data not available (optional)"]
    [] g = "chaos" -> [passed |-> TRUE,
                       text |-> "Chaos test data not available (optional)"]
    [] g = "models" -> [passed |-> TRUE,
                        text |-> "Model validation data not available (optional)"]

\* C4: in every report each of the four gates has exactly one entry, and a
\* gate whose artifact is absent (no path given, or no file at the path) is
\* decided by its optionality: integration fails with 'results not found',
\* performance, chaos and models pass with 'not available (optional)'.
C4_EveryGateReportedOnce ==
  result # None =>
    /\ Len(result.gates) = Cardinality(Gates)
    /\ \A g \in Gates :
         /\ Count(result.gates, g) = 1
         /\ files[g].k \in {"no_arg", "absent"} =>
              /\ Entry(result.gates, g).passed = AbsentVerdict(g).passed
              /\ Entry(result.gates, g).message.text = AbsentVerdict(g).text

\* C4 witness: a report of a run given only the integration artifact, the
\* three optional artifacts being absent.
C4_Witness ==
  /\ output # None
  /\ files["integration"].k = "ok"
  /\ files["performance"].k = "absent"
  /\ files["chaos"].k = "no_arg"
  /\ files["models"].k = "no_arg"
  /\ output.passed

Rank(g) == CHOOSE i \in 1..Len(GateOrder) : GateOrder[i] = g
LoadPc(g) ==
  CASE g = "integration" -> "load_integration"
    [] g = "performance" -> "load_perf"
    [] g = "chaos" -> "load_chaos"
    [] g = "models" -> "load_models"

\* the load of gate g has returned
LoadReturned(g) ==
  /\ pc \notin {"start", "usage_error"}
  /\ \A h \in Gates : pc = LoadPc(h) => Rank(h) > Rank(g)
  /\ (pc = "crashed" /\ error.origin = "load") => Rank(error.gate) > Rank(g)

\* C5 (as claimed): an artifact whose file exists but cannot be parsed never
\* aborts the run; it loads as a missing artifact, with a warning, so that its
\* gate gets the verdict of a missing artifact.
C5_MalformedAsMissing ==
  \A g \in Gates :
    files[g].k \in {"invalid_json", "bad_encoding"} =>
      /\ ~(pc = "crashed" /\ error.origin = "load" /\ error.gate = g)
      /\ LoadReturned(g) => (data[g] = None /\ Warned(g))
      /\ Count(gates, g) = 1 =>
           /\ Entry(gates, g).passed = AbsentVerdict(g).passed
           /\ Entry(gates, g).message.text = AbsentVerdict(g).text

\* the UTC ISO-8601 rendering of a clock value
IsoUtc(t) == "1970-01-01T00:00:0" \o ToString(t) \o "Z"

\* C10 (as claimed): every report carries the current time of the run as a
\* UTC ISO-8601 string in its timestamp field.
C10_TimestampIsRunTime ==
  result # None => result.timestamp = IsoUtc(now)

----------------------------------------------------------------------------
(* Properties of the evaluators *)

Has(d, key) == d.t = "dict" /\ key \in DOMAIN d.f
IsNum(v) == v.t = "int"

\* the verdict the evaluator of gate g returned
Returned(g, next) == pc = next /\ Len(gates) = 1 /\ gates[1].name = g
Verdict == gates[1]

\* C6: for a present integration artifact the gate fails whenever total is 0,
\* whatever passed and failed are and without raising; when total > 0 it
\* passes exactly when passed/total >= 0.80 (80 of 100 passes, 79 of 100 fails).
C6_IntegrationThreshold ==
  LET d == data["integration"] IN
  (pc # "check_integration" /\ Has(d, "summary") /\ Has(d.f["summary"], "total")
     /\ IsNum(d.f["summary"].f["total"])) =>
    LET s == d.f["summary"].f
        total == s["total"].v
    IN /\ total = 0 =>
            /\ Returned("integration", "check_performance")
            /\ ~Verdict.passed
            /\ Verdict.message.text = "No integration tests run"
       /\ (total > 0 /\ "passed" \in DOMAIN s /\ IsNum(s["passed"])) =>
            /\ Returned("integration", "check_performance")
            /\ Verdict.passed = (s["passed"].v * 100 >= 80 * total)

\* C6 witness: 80 passed of 100 has been evaluated and passes.
C6_Witness ==
  /\ Returned("integration", "check_performance")
  /\ data["integration"] = DictOf(Field("summary", Summary(Num(100), Num(80), Num(1))))
  /\ Verdict.passed

\* the sum of recovery_time_ms over the events, a missing field counting as 0
RECURSIVE ClaimedSum(_)
ClaimedSum(es) ==
  IF es = <<>> THEN 0
  ELSE (IF "recovery_time_ms" \in DOMAIN Head(es).f
        THEN Head(es).f["recovery_time_ms"].v ELSE 0) + ClaimedSum(Tail(es))

WellFormedEvents(es) ==
  \A i \in 1..Len(es) :
    /\ es[i].t = "dict"
    /\ "recovery_time_ms" \in DOMAIN es[i].f => IsNum(es[i].f["recovery_time_ms"])

\* C7: for a present chaos artifact the gate passes with a 'stable' message
\* when healing_events is empty (not the absent-artifact verdict), and for a
\* non-empty list it fails exactly when the mean recovery_time_ms is greater
\* than 5000, a missing recovery_time_ms counting as 0.
C7_ChaosThreshold ==
  LET d == data["chaos"] IN
  (pc # "check_chaos" /\ Has(d, "healing_events")
     /\ d.f["healing_events"].t = "list") =>
    LET es == d.f["healing_events"].items IN
    /\ es = <<>> =>
         /\ Returned("chaos", "check_models")
         /\ Verdict.passed
         /\ Verdict.message.text = "No healing events (system stable)"
         /\ Verdict.message.text # AbsentVerdict("chaos").text
    /\ (es # <<>> /\ WellFormedEvents(es)) =>
         /\ Returned("chaos", "check_models")
         /\ Verdict.passed = ~(ClaimedSum(es) > 5000 * Len(es))

\* C7 witness: two events, one without recovery_time_ms and one of 10000 ms
\* (mean exactly 5000), have been evaluated and pass.
C7_Witness ==
  /\ Returned("chaos", "check_models")
  /\ data["chaos"] = DictOf(Field("healing_events",
                                  List(<<Event(Missing), Event(Num(10000))>>)))
  /\ Verdict.passed

\* C8: the performance gate passes with an 'optional' message when the
\* artifact is absent; for a present artifact it fails exactly when
\* latency.p95 > 1000, a missing latency or p95 counting as 0.
C8_PerformanceThreshold ==
  LET d == data["performance"] IN
  pc # "check_performance" =>
    /\ d = None =>
         /\ Returned("performance", "check_chaos")
         /\ Verdict.passed
         /\ Verdict.message.text = "Performance data not available (optional)"
    /\ (d.t = "dict" /\ ~Has(d, "latency")) =>
         /\ Returned("performance", "check_chaos")
         /\ Verdict.passed
    /\ (Has(d, "latency") /\ d.f["latency"].t = "dict") =>
         LET l == d.f["latency"].f IN
         /\ "p95" \notin DOMAIN l =>
              /\ Returned("performance", "check_chaos")
              /\ Verdict.passed
         /\ ("p95" \in DOMAIN l /\ IsNum(l["p95"])) =>
              /\ Returned("performance", "check_chaos")
              /\ Verdict.passed = ~(l["p95"].v > 1000)

\* C8 witness: p95 = 1000 has been evaluated and passes.
C8_Witness ==
  /\ Returned("performance", "check_chaos")
  /\ Has(data["performance"], "latency")
  /\ Has(data["performance"].f["latency"], "p95")
  /\ data["performance"].f["latency"].f["p95"] = Num(1000)
  /\ Verdict.passed

\* C9: for a present model artifact the gate passes exactly when
\* accuracy >= 0.90 (in thousandths: 900 passes, 899 fails), a missing
\* accuracy counting as 0 and failing; an absent artifact passes as optional.
C9_ModelThreshold ==
  LET d == data["models"] IN
  pc # "check_models" =>
    /\ d = None =>
         /\ Returned("models", "build")
         /\ Verdict.passed
         /\ Verdict.message.text = "Model validation data not available (optional)"
    /\ (d.t = "dict" /\ ~Has(d, "accuracy")) =>
         /\ Returned("models", "build")
         /\ ~Verdict.passed
    /\ (Has(d, "accuracy") /\ IsNum(d.f["accuracy"])) =>
         /\ Returned("models", "build")
         /\ Verdict.passed = (d.f["accuracy"].v >= 900)

\* C9 witness: accuracy 0.90 has been evaluated and passes.
C9_Witness ==
  /\ Returned("models", "build")
  /\ data["models"] = DictOf(Field("accuracy", Num(900)))
  /\ Verdict.passed

====
